---- MODULE Spec2Model ----
(***************************************************************************)
(* Model of package nbio (read.go): a non blocking wrapper around an       *)
(* io.ReadCloser.  Two execution contexts are modelled, statement by       *)
(* statement: the producer goroutine started by NewReader and the single   *)
(* caller that drives Read and Close.  The source and the timer are the    *)
(* environment.                                                            *)
(*                                                                         *)
(* A slice is a record [id, len]: the backing array (1..3 for buf1..buf3,  *)
(* 0 for the nil slice) and its length; every slice of the program starts  *)
(* at offset 0 of its array.  The bytes of the source are numbered in the  *)
(* order the source hands them out, so byte k of the stream has value k.   *)
(***************************************************************************)
EXTENDS Integers, Sequences, FiniteSets, TLC

\* ---------------------------------------------------------------- bounds
\* Total number of bytes the source hands out before it only reports
\* (0, nil) or an error.
MaxBytes == 3
\* Capacity of each of the three buffers ([2048]byte in the source, scaled).
BufCap == 2
\* Largest destination length a caller passes to Read.
MaxP == 3

\* ------------------------------------------------------ program constants
NextCap == 1
\* The pool made no larger than r.next.
PoolCapAsNext == NextCap
PoolCap == 2
ErrCap == 1
NumBufs == 3

Bufs == 1..NumBufs
Nil == [id |-> 0, len |-> 0]
NoErr == "nil"
ErrNoData == "ErrNoData"
\* Errors the source's Read can report, and the results of the source's Close.
SrcErrors == {"EOF", "ErrClosedPipe"}
CloseResults == {NoErr, "errOnClose"}

Min(a, b) == IF a < b THEN a ELSE b

VARIABLES
    \* the reader struct
    rbuf,       \* r.buf: current buffer
    ri,         \* r.i: position in current buffer
    next,       \* r.next: buffered channel of slices
    nextClosed, \* whether close(r.next) has happened
    pool,       \* r.pool: buffered channel of slices
    errc,       \* r.err: buffered channel of errors
    timer,      \* r.timer: "nil", "active", "fired" (event pending in C), "off"
    mem,        \* contents of buf1, buf2, buf3
    \* the source
    srcCount,   \* bytes the source has handed to the producer
    srcClosed,  \* whether the source's Close was called
    \* the producer goroutine
    ppc,        \* position of the producer
    pbuf,       \* its local buf
    pn,         \* its local n
    perr,       \* its local err
    \* the caller
    cpc,        \* position of the caller inside Read or Close
    op,         \* the call in progress, or the last one: "none", "Read", "Close"
    lbuf,       \* local buf of Read / Close
    plen,       \* len(p), the destination still to fill
    n,          \* local n of Read
    pdata,      \* bytes copied into the destination by the current call
    cerr,       \* local err of Read / Close
    \* observations
    out,        \* bytes returned by Read calls so far, in order
    lastRet,    \* result of the last call that returned
    sticky,     \* first error other than ErrNoData a Read returned
    closeCalled,
    closeReturned,
    srcCloseRet, \* what the source's Close returned
    call        \* what the current Read call saw at entry and did since

readerVars == <<rbuf, ri, next, nextClosed, pool, errc, timer, mem>>
srcVars == <<srcCount, srcClosed>>
prodVars == <<ppc, pbuf, pn, perr>>
callerVars == <<cpc, op, lbuf, plen, n, pdata, cerr>>
obsVars == <<out, lastRet, sticky, closeCalled, closeReturned, srcCloseRet, call>>
vars == <<readerVars, srcVars, prodVars, callerVars, obsVars>>

\* ------------------------------------------------------------ NewReader
NoCall == [buf |-> Nil, i |-> 0, len |-> 0, pend |-> 0, outLen |-> 0, st |-> NoErr,
           recv |-> 0, put |-> 0, errop |-> 0, prod |-> "none"]

Init ==
    /\ rbuf = [id |-> 1, len |-> 0]
    /\ ri = 0
    /\ next = <<>>
    /\ nextClosed = FALSE
    /\ pool = <<[id |-> 3, len |-> BufCap]>>
    /\ errc = <<>>
    /\ timer = "nil"
    /\ mem = [b \in Bufs |-> [k \in 1..BufCap |-> 0]]
    /\ srcCount = 0
    /\ srcClosed = FALSE
    /\ ppc = "read"
    /\ pbuf = [id |-> 2, len |-> BufCap]
    /\ pn = 0
    /\ perr = NoErr
    /\ cpc = "idle"
    /\ op = "none"
    /\ lbuf = Nil
    /\ plen = 0
    /\ n = 0
    /\ pdata = <<>>
    /\ cerr = NoErr
    /\ out = <<>>
    /\ lastRet = [n |-> 0, err |-> NoErr]
    /\ sticky = NoErr
    /\ closeCalled = FALSE
    /\ closeReturned = FALSE
    /\ srcCloseRet = NoErr
    /\ call = NoCall

\* ------------------------------------------------------- channel r.next
\* A receive is ready when a value is buffered or the channel is closed.
NextReady == next # <<>> \/ nextClosed

\* The value a receive yields: the head, or the zero value (nil) once the
\* channel is closed and drained.
NextValue == IF next # <<>> THEN Head(next) ELSE Nil

\* A receive from the full channel while the producer is parked in its send
\* moves the producer's value into the buffer in the same step and resumes
\* the producer.
NextAfterRecv ==
    IF next = <<>> THEN next
    ELSE IF ppc = "parked" THEN Append(Tail(next), [id |-> pbuf.id, len |-> pn])
    ELSE Tail(next)

PpcAfterRecv == IF next # <<>> /\ ppc = "parked" THEN "poolrecv" ELSE ppc

\* ---------------------------------------------------------- the source
\* What r.r.Read(buf) can return: up to len(buf) fresh bytes, with or
\* without an error; once the source is closed it reports an error.
SourceResults(buflen) ==
    { <<k, e>> \in (0..Min(buflen, MaxBytes - srcCount)) \X ({NoErr} \cup SrcErrors) :
        srcClosed => e # NoErr }

\* ------------------------------------------------- producer goroutine
\* The test that drops the bytes of a read that also reports an error.
PublishesUnlessError(k, e) == k # 0 /\ e = NoErr

\* No test at all: a read of zero bytes is published as an empty buffer.
PublishesAlways(k, e) == TRUE

\* if n != 0, for the results n, err of the source's Read
Publishes(k, e) == k # 0

\* n, err := r.r.Read(buf)
P_Read ==
    /\ ppc = "read"
    /\ \E res \in SourceResults(pbuf.len) :
        /\ pn' = res[1]
        /\ perr' = res[2]
        /\ mem' = [mem EXCEPT ![pbuf.id] =
                     [k \in 1..BufCap |-> IF k <= res[1] THEN srcCount + k ELSE @[k]]]
        /\ srcCount' = srcCount + res[1]
        /\ ppc' = IF Publishes(res[1], res[2]) THEN "send" ELSE "errcheck"
    /\ UNCHANGED <<rbuf, ri, next, nextClosed, pool, errc, timer, srcClosed, pbuf,
                   callerVars, obsVars>>

\* r.next <- buf[:n], with room in the channel
P_Send ==
    /\ ppc = "send"
    /\ Len(next) < NextCap
    /\ next' = Append(next, [id |-> pbuf.id, len |-> pn])
    /\ ppc' = "poolrecv"
    /\ UNCHANGED <<rbuf, ri, nextClosed, pool, errc, timer, mem, srcVars, pbuf, pn, perr,
                   callerVars, obsVars>>

\* r.next <- buf[:n], channel full: the goroutine parks as a waiting sender
P_Park ==
    /\ ppc = "send"
    /\ Len(next) >= NextCap
    /\ ppc' = "parked"
    /\ UNCHANGED <<readerVars, srcVars, pbuf, pn, perr, callerVars, obsVars>>

\* The receive from the pool whose result is dropped: the producer goes on
\* filling the buffer it has just published.
P_PoolRecvKeepsBuffer ==
    /\ ppc = "poolrecv"
    /\ pool # <<>>
    /\ pbuf' = [id |-> pbuf.id, len |-> BufCap]
    /\ pool' = Tail(pool)
    /\ ppc' = "errcheck"
    /\ UNCHANGED <<rbuf, ri, next, nextClosed, errc, timer, mem, srcVars, pn, perr,
                   callerVars, obsVars>>

\* buf = <-r.pool; buf = buf[:cap(buf)]
P_PoolRecv ==
    /\ ppc = "poolrecv"
    /\ pool # <<>>
    /\ pbuf' = [id |-> Head(pool).id, len |-> BufCap]
    /\ pool' = Tail(pool)
    /\ ppc' = "errcheck"
    /\ UNCHANGED <<rbuf, ri, next, nextClosed, errc, timer, mem, srcVars, pn, perr,
                   callerVars, obsVars>>

\* if err != nil is false: next iteration
P_Loop ==
    /\ ppc = "errcheck"
    /\ perr = NoErr
    /\ ppc' = "read"
    /\ UNCHANGED <<readerVars, srcVars, pbuf, pn, perr, callerVars, obsVars>>

\* The producer that records the error and goes on reading.
P_StoreErrAndContinue ==
    /\ ppc = "errcheck"
    /\ perr # NoErr
    /\ Len(errc) < ErrCap
    /\ errc' = Append(errc, perr)
    /\ ppc' = "read"
    /\ UNCHANGED <<rbuf, ri, next, nextClosed, pool, timer, mem, srcVars, pbuf, pn, perr,
                   callerVars, obsVars>>

\* if err != nil { r.err <- err
P_StoreErr ==
    /\ ppc = "errcheck"
    /\ perr # NoErr
    /\ Len(errc) < ErrCap
    /\ errc' = Append(errc, perr)
    /\ ppc' = "close"
    /\ UNCHANGED <<rbuf, ri, next, nextClosed, pool, timer, mem, srcVars, pbuf, pn, perr,
                   callerVars, obsVars>>

\* The producer that returns without closing r.next.
P_ReturnWithoutClose ==
    /\ ppc = "close"
    /\ ppc' = "done"
    /\ UNCHANGED <<readerVars, srcVars, pbuf, pn, perr, callerVars, obsVars>>

\* close(r.next); return }
P_Close ==
    /\ ppc = "close"
    /\ nextClosed' = TRUE
    /\ ppc' = "done"
    /\ UNCHANGED <<rbuf, ri, next, pool, errc, timer, mem, srcVars, pbuf, pn, perr,
                   callerVars, obsVars>>

Producer == P_Read \/ P_Send \/ P_Park \/ P_PoolRecv \/ P_Loop \/ P_StoreErr \/ P_Close

\* ------------------------------------------------------------ the timer
\* The countdown of an armed timer elapses: its event is sent on timer.C.
TimerFire ==
    /\ timer = "active"
    /\ timer' = "fired"
    /\ UNCHANGED <<rbuf, ri, next, nextClosed, pool, errc, mem, srcVars, prodVars,
                   callerVars, obsVars>>

\* ----------------------------------------------------------------- Read
\* Bytes read from the source and not yet returned: unread in the current
\* buffer, queued in r.next, or held by the producer parked in its send.
SumLen(q) == IF q = <<>> THEN 0 ELSE q[1].len + (IF Len(q) > 1 THEN q[2].len ELSE 0)

Pending ==
    (IF rbuf.len > ri THEN rbuf.len - ri ELSE 0)
    + SumLen(next)
    + (IF ppc = "parked" THEN pn ELSE 0)

\* What a return of Read leaves behind; the locals of the call are gone.
ReadReturn(k, e, data) ==
    /\ cpc' = "idle"
    /\ lbuf' = Nil
    /\ plen' = 0
    /\ n' = 0
    /\ cerr' = NoErr
    /\ pdata' = <<>>
    /\ lastRet' = [n |-> k, err |-> e]
    /\ out' = out \o SubSeq(data, 1, k)
    /\ sticky' = IF sticky = NoErr /\ e \notin {NoErr, ErrNoData} THEN e ELSE sticky
    /\ UNCHANGED <<op, closeCalled, closeReturned, srcCloseRet>>

\* Read(p): arm the timer (NewTimer or Reset), buf := r.buf
Read_Call ==
    /\ cpc = "idle"
    /\ \E k \in 0..MaxP :
        /\ plen' = k
        /\ call' = [buf |-> rbuf, i |-> ri, len |-> k, pend |-> Pending,
                    outLen |-> Len(out), st |-> sticky,
                    recv |-> 0, put |-> 0, errop |-> 0, prod |-> "none"]
    /\ timer' = "active"
    /\ lbuf' = rbuf
    /\ n' = 0
    /\ pdata' = <<>>
    /\ op' = "Read"
    /\ cpc' = "wait"
    /\ UNCHANGED <<rbuf, ri, next, nextClosed, pool, errc, mem, srcVars, prodVars, cerr,
                   out, lastRet, sticky, closeCalled, closeReturned, srcCloseRet>>

\* The loop condition with > for >=: an exhausted buffer passes for data.
WaitCondOffByOne == lbuf # Nil /\ ri > lbuf.len

\* for buf != nil && r.i >= len(buf)
WaitCond == lbuf # Nil /\ ri >= lbuf.len

\* the loop condition is false: leave the loop
Read_WaitSkip ==
    /\ cpc = "wait"
    /\ ~WaitCond
    /\ cpc' = "stop"
    /\ UNCHANGED <<readerVars, srcVars, prodVars, op, lbuf, plen, n, pdata, cerr, obsVars>>

\* case <-r.timer.C: return 0, ErrNoData
Read_Timeout ==
    /\ cpc = "wait"
    /\ WaitCond
    /\ timer = "fired"
    /\ timer' = "off"
    /\ ReadReturn(0, ErrNoData, pdata)
    /\ UNCHANGED <<rbuf, ri, next, nextClosed, pool, errc, mem, srcVars, prodVars, call>>

\* case buf = <-r.next:
Read_WaitRecv ==
    /\ cpc = "wait"
    /\ WaitCond
    /\ NextReady
    /\ lbuf' = NextValue
    /\ next' = NextAfterRecv
    /\ ppc' = PpcAfterRecv
    /\ call' = [call EXCEPT !.recv = @ + 1]
    /\ cpc' = "recycle1"
    /\ UNCHANGED <<rbuf, ri, nextClosed, pool, errc, timer, mem, srcVars, pbuf, pn, perr,
                   op, plen, n, pdata, cerr,
                   out, lastRet, sticky, closeCalled, closeReturned, srcCloseRet>>

\* The hand-over that keeps the old current buffer when the channel is closed.
Read_Recycle1KeepOnNil ==
    /\ cpc = "recycle1"
    /\ Len(pool) < PoolCap
    /\ pool' = Append(pool, rbuf)
    /\ rbuf' = IF lbuf = Nil THEN rbuf ELSE lbuf
    /\ ri' = 0
    /\ call' = [call EXCEPT !.put = @ + 1]
    /\ cpc' = "wait"
    /\ UNCHANGED <<next, nextClosed, errc, timer, mem, srcVars, prodVars,
                   op, lbuf, plen, n, pdata, cerr,
                   out, lastRet, sticky, closeCalled, closeReturned, srcCloseRet>>

\* r.pool <- r.buf; r.buf = buf; r.i = 0
Read_Recycle1 ==
    /\ cpc = "recycle1"
    /\ Len(pool) < PoolCap
    /\ pool' = Append(pool, rbuf)
    /\ rbuf' = lbuf
    /\ ri' = 0
    /\ call' = [call EXCEPT !.put = @ + 1]
    /\ cpc' = "wait"
    /\ UNCHANGED <<next, nextClosed, errc, timer, mem, srcVars, prodVars,
                   op, lbuf, plen, n, pdata, cerr,
                   out, lastRet, sticky, closeCalled, closeReturned, srcCloseRet>>

\* Where Read goes once the timer is disarmed: if buf == nil
AfterStop == IF lbuf = Nil THEN "errtake" ELSE "copy"

\* The disarming that ignores Stop's result and always drains timer.C.
Read_StopAlwaysDrains ==
    /\ cpc = "stop"
    /\ timer' = IF timer = "active" THEN "off" ELSE timer
    /\ cpc' = "drain"
    /\ UNCHANGED <<rbuf, ri, next, nextClosed, pool, errc, mem, srcVars, prodVars,
                   op, lbuf, plen, n, pdata, cerr, obsVars>>

\* The disarming that ignores a failed Stop and leaves the event in timer.C.
Read_StopNeverDrains ==
    /\ cpc = "stop"
    /\ timer' = IF timer = "active" THEN "off" ELSE timer
    /\ cpc' = AfterStop
    /\ UNCHANGED <<rbuf, ri, next, nextClosed, pool, errc, mem, srcVars, prodVars,
                   op, lbuf, plen, n, pdata, cerr, obsVars>>

\* if !r.timer.Stop(): Stop reports true when it disarms an armed timer
Read_Stop ==
    /\ cpc = "stop"
    /\ IF timer = "active"
         THEN timer' = "off" /\ cpc' = AfterStop
         ELSE timer' = timer /\ cpc' = "drain"
    /\ UNCHANGED <<rbuf, ri, next, nextClosed, pool, errc, mem, srcVars, prodVars,
                   op, lbuf, plen, n, pdata, cerr, obsVars>>

\* <-r.timer.C
Read_Drain ==
    /\ cpc = "drain"
    /\ timer = "fired"
    /\ timer' = "off"
    /\ cpc' = AfterStop
    /\ UNCHANGED <<rbuf, ri, next, nextClosed, pool, errc, mem, srcVars, prodVars,
                   op, lbuf, plen, n, pdata, cerr, obsVars>>

\* err := <-r.err
Read_ErrTake ==
    /\ cpc = "errtake"
    /\ errc # <<>>
    /\ cerr' = Head(errc)
    /\ errc' = Tail(errc)
    /\ call' = [call EXCEPT !.errop = @ + 1]
    /\ cpc' = "errput"
    /\ UNCHANGED <<rbuf, ri, next, nextClosed, pool, timer, mem, srcVars, prodVars,
                   op, lbuf, plen, n, pdata,
                   out, lastRet, sticky, closeCalled, closeReturned, srcCloseRet>>

\* The return that does not put the error back into r.err.
Read_ErrPutForgets ==
    /\ cpc = "errput"
    /\ ReadReturn(0, cerr, pdata)
    /\ UNCHANGED <<readerVars, srcVars, prodVars, call>>

\* r.err <- err; return 0, err
Read_ErrPut ==
    /\ cpc = "errput"
    /\ Len(errc) < ErrCap
    /\ errc' = Append(errc, cerr)
    /\ call' = [call EXCEPT !.errop = @ + 1]
    /\ ReadReturn(0, cerr, pdata)
    /\ UNCHANGED <<rbuf, ri, next, nextClosed, pool, timer, mem, srcVars, prodVars>>

\* if n >= len(p), with n the bytes copied by the call so far and p the
\* destination as resliced by the earlier iterations
Filled(total, dstlen) == total >= dstlen

\* did := copy(p, buf[r.i:]); r.i += did; n += did;
\* if n >= len(p) { return n, nil }; p = p[did:]
Read_Copy ==
    /\ cpc = "copy"
    /\ LET did == Min(plen, lbuf.len - ri)
           data == pdata \o SubSeq(mem[lbuf.id], ri + 1, ri + did)
       IN  /\ ri' = ri + did
           /\ IF Filled(n + did, plen)
                THEN ReadReturn(n + did, NoErr, data)
                ELSE /\ n' = n + did
                     /\ pdata' = data
                     /\ plen' = plen - did
                     /\ cpc' = "poll"
                     /\ UNCHANGED <<op, lbuf, cerr, out, lastRet, sticky, closeCalled,
                                    closeReturned, srcCloseRet>>
    /\ UNCHANGED <<rbuf, next, nextClosed, pool, errc, timer, mem, srcVars, prodVars, call>>

\* select { default: return n, nil
Read_PollDefault ==
    /\ cpc = "poll"
    /\ ~NextReady
    /\ ReadReturn(n, NoErr, pdata)
    /\ UNCHANGED <<readerVars, srcVars, prodVars, call>>

\* select { case buf = <-r.next:
Read_PollRecv ==
    /\ cpc = "poll"
    /\ NextReady
    /\ lbuf' = NextValue
    /\ next' = NextAfterRecv
    /\ ppc' = PpcAfterRecv
    /\ call' = [call EXCEPT !.recv = @ + 1]
    /\ cpc' = "recycle2"
    /\ UNCHANGED <<rbuf, ri, nextClosed, pool, errc, timer, mem, srcVars, pbuf, pn, perr,
                   op, plen, n, pdata, cerr,
                   out, lastRet, sticky, closeCalled, closeReturned, srcCloseRet>>

\* r.pool <- r.buf; r.buf = buf; r.i = 0; if buf == nil { return n, nil }
Read_Recycle2 ==
    /\ cpc = "recycle2"
    /\ Len(pool) < PoolCap
    /\ pool' = Append(pool, rbuf)
    /\ rbuf' = lbuf
    /\ ri' = 0
    /\ call' = [call EXCEPT !.put = @ + 1]
    /\ IF lbuf = Nil
         THEN ReadReturn(n, NoErr, pdata)
         ELSE /\ cpc' = "copy"
              /\ UNCHANGED <<op, lbuf, plen, n, pdata, cerr, out, lastRet, sticky,
                             closeCalled, closeReturned, srcCloseRet>>
    /\ UNCHANGED <<next, nextClosed, errc, timer, mem, srcVars, prodVars>>

\* The steps inside a Read call.
ReadStep ==
    \/ Read_WaitSkip \/ Read_Timeout \/ Read_WaitRecv \/ Read_Recycle1
    \/ Read_Stop \/ Read_Drain \/ Read_ErrTake \/ Read_ErrPut
    \/ Read_Copy \/ Read_PollDefault \/ Read_PollRecv \/ Read_Recycle2

\* ---------------------------------------------------------------- Close
\* err := r.r.Close()
Close_Call ==
    /\ cpc = "idle"
    /\ ~closeCalled
    /\ \E e \in CloseResults :
        /\ cerr' = e
        /\ srcCloseRet' = e
    /\ srcClosed' = TRUE
    /\ closeCalled' = TRUE
    /\ op' = "Close"
    /\ cpc' = "range"
    /\ call' = [NoCall EXCEPT !.prod = ppc]
    /\ UNCHANGED <<readerVars, srcCount, prodVars, lbuf, plen, n, pdata,
                   out, lastRet, sticky, closeReturned>>

\* for buf := range r.next: a buffer arrives
Close_Recv ==
    /\ cpc = "range"
    /\ next # <<>>
    /\ lbuf' = NextValue
    /\ next' = NextAfterRecv
    /\ ppc' = PpcAfterRecv
    /\ cpc' = "closeput"
    /\ UNCHANGED <<rbuf, ri, nextClosed, pool, errc, timer, mem, srcVars, pbuf, pn, perr,
                   op, plen, n, pdata, cerr, obsVars>>

\* The flush that drops the buffers it receives instead of recycling them.
Close_PutDrops ==
    /\ cpc = "closeput"
    /\ lbuf' = Nil
    /\ cpc' = "range"
    /\ UNCHANGED <<readerVars, srcVars, prodVars, op, plen, n, pdata, cerr, obsVars>>

\* r.pool <- buf
Close_Put ==
    /\ cpc = "closeput"
    /\ Len(pool) < PoolCap
    /\ pool' = Append(pool, lbuf)
    /\ lbuf' = Nil
    /\ cpc' = "range"
    /\ UNCHANGED <<rbuf, ri, next, nextClosed, errc, timer, mem, srcVars, prodVars,
                   op, plen, n, pdata, cerr, obsVars>>

\* The flush that stops at the first moment the channel is empty, closed or not.
Close_ReturnWhenEmpty ==
    /\ cpc = "range"
    /\ next = <<>>
    /\ cpc' = "idle"
    /\ lastRet' = [n |-> 0, err |-> cerr]
    /\ cerr' = NoErr
    /\ closeReturned' = TRUE
    /\ UNCHANGED <<readerVars, srcVars, prodVars, op, lbuf, plen, n, pdata,
                   out, sticky, closeCalled, srcCloseRet, call>>

\* The return that forgets the result of the source's Close.
Close_ReturnNoError ==
    /\ cpc = "range"
    /\ next = <<>>
    /\ nextClosed
    /\ cpc' = "idle"
    /\ lastRet' = [n |-> 0, err |-> NoErr]
    /\ cerr' = NoErr
    /\ closeReturned' = TRUE
    /\ UNCHANGED <<readerVars, srcVars, prodVars, op, lbuf, plen, n, pdata,
                   out, sticky, closeCalled, srcCloseRet, call>>

\* the range loop ends on the closed, drained channel; return err
Close_Return ==
    /\ cpc = "range"
    /\ next = <<>>
    /\ nextClosed
    /\ cpc' = "idle"
    /\ lastRet' = [n |-> 0, err |-> cerr]
    /\ cerr' = NoErr
    /\ closeReturned' = TRUE
    /\ UNCHANGED <<readerVars, srcVars, prodVars, op, lbuf, plen, n, pdata,
                   out, sticky, closeCalled, srcCloseRet, call>>

CloseStep == Close_Recv \/ Close_Put \/ Close_Return

\* ------------------------------------------------------- specification
Next ==
    \/ P_Read \/ P_Send \/ P_Park \/ P_PoolRecv \/ P_Loop \/ P_StoreErr \/ P_Close
    \/ TimerFire
    \/ Read_Call
    \/ Read_WaitSkip \/ Read_Timeout \/ Read_WaitRecv \/ Read_Recycle1
    \/ Read_Stop \/ Read_Drain \/ Read_ErrTake \/ Read_ErrPut
    \/ Read_Copy \/ Read_PollDefault \/ Read_PollRecv \/ Read_Recycle2
    \/ Close_Call \/ Close_Recv \/ Close_Put \/ Close_Return

Spec == Init /\ [][Next]_vars

\* The producer goroutine is scheduled whenever it can run; a blocking read
\* of the source is only known to return once the source has been closed.
ProducerRuns == P_Send \/ P_Park \/ P_PoolRecv \/ P_Loop \/ P_StoreErr \/ P_Close

\* Spec with the producer and a caller inside Close making progress.
LiveCloseSpec ==
    /\ Spec
    /\ WF_vars(ProducerRuns)
    /\ WF_vars(srcClosed /\ P_Read)
    /\ WF_vars(CloseStep)

\* Spec with a caller inside Read making progress and an armed timer
\* eventually firing; nothing is assumed of the producer or the source.
LiveReadSpec ==
    /\ Spec
    /\ WF_vars(TimerFire)
    /\ WF_vars(ReadStep)

\* ----------------------------------------------------------- properties
\* A Read call returns in this step.
ReadReturns == op = "Read" /\ cpc # "idle" /\ cpc' = "idle"

\* The caller is between calls and the last call was a Read.
AfterRead == op = "Read" /\ cpc = "idle"

\* C1: once a Read has returned an error other than ErrNoData, every later
\* Read returns zero bytes and that same error, which is the first error the
\* source reported to the producer; it delivers no more data and never
\* returns ErrNoData.
C1_StickyError ==
    /\ [](sticky # NoErr => sticky = perr /\ sticky \in SrcErrors)
    /\ [][(sticky # NoErr /\ ReadReturns) =>
            (lastRet' = [n |-> 0, err |-> sticky] /\ out' = out)]_vars

\* A Read that began after the terminal error was returned has returned.
C1_Witness ==
    /\ AfterRead
    /\ call.st # NoErr
    /\ lastRet = [n |-> 0, err |-> call.st]

\* The last Read returned either (n > 0, nil) or (0, error).
DataXorError ==
    \/ lastRet.n > 0 /\ lastRet.err = NoErr
    \/ lastRet.n = 0 /\ lastRet.err # NoErr

IsStreamPrefix(s) == Len(s) <= srcCount /\ \A k \in 1..Len(s) : s[k] = k

\* C3: before Close is called, the bytes returned by Read calls so far
\* (and those the running call has copied) are a prefix of the bytes the
\* source has handed to the producer, in the same order: none lost,
\* duplicated or reordered.
C3_ReturnedIsPrefix == ~closeCalled => IsStreamPrefix(out \o pdata)

\* Several Read calls have returned data that crossed r.next, three bytes or
\* more in all, the last call taking a buffer from the channel itself.
C3_Witness ==
    /\ AfterRead
    /\ ~closeCalled
    /\ Len(out) >= 3
    /\ call.outLen >= 1
    /\ call.recv >= 1
    /\ lastRet.n >= 1

\* The source's final read returned bytes together with its error.
FinalReadHadData == perr # NoErr /\ pn > 0

\* Every byte the source handed out has been returned by Read, in order.
AllDelivered == Len(out) = srcCount /\ IsStreamPrefix(out)

\* C4 as stated: if the source's final read returns n > 0 bytes and an
\* error, all bytes are returned by Read calls before any Read call returns
\* the terminal error.
C4_AsStated == (FinalReadHadData /\ sticky # NoErr) => AllDelivered

\* C4 amended: as long as Close has not been called, if the source's final
\* read returns n > 0 bytes and an error, all bytes are returned by Read
\* calls with a nil error before any Read call returns the terminal error;
\* and a Read call that has copied bytes when it observes r.next closed
\* returns those bytes with a nil error, leaving the error to a later call.
C4_DataBeforeError ==
    /\ []((FinalReadHadData /\ sticky # NoErr /\ ~closeCalled) => AllDelivered)
    /\ [][(cpc = "recycle2" /\ lbuf = Nil /\ ReadReturns) =>
            (n > 0 /\ lastRet' = [n |-> n, err |-> NoErr] /\ sticky' = sticky)]_vars

\* Without a Close, the final read carried data and Read has returned the
\* terminal error after delivering everything.
C4_Witness ==
    /\ AfterRead
    /\ ~closeCalled
    /\ FinalReadHadData
    /\ lastRet = [n |-> 0, err |-> perr]
    /\ srcCount >= 2
    /\ AllDelivered

\* C5: a Read call that returns ErrNoData returns count 0 and has itself
\* changed no reader state but the timer: it received nothing from r.next,
\* sent nothing to r.pool, did not touch r.err, left r.buf and r.i as they
\* were at the call and returned no byte.
C5_NoDataLeavesState ==
    (AfterRead /\ lastRet.err = ErrNoData) =>
        /\ lastRet.n = 0
        /\ call.recv = 0 /\ call.put = 0 /\ call.errop = 0
        /\ rbuf = call.buf /\ ri = call.i
        /\ Len(out) = call.outLen

\* A reader that has already delivered data and exhausted a real buffer
\* returned ErrNoData.
C5_Witness ==
    /\ AfterRead
    /\ lastRet.err = ErrNoData
    /\ call.outLen >= 1
    /\ rbuf.len >= 1
    /\ ~nextClosed

\* The caller is between calls and the last call was Close.
AfterClose == op = "Close" /\ cpc = "idle"

\* C6: when Close returns the producer has terminated: it has recorded its
\* error and closed r.next, its last action; from then on it reads nothing
\* more from the source and performs no channel operation.
C6_CloseEndsProducer ==
    /\ [](closeReturned => (ppc = "done" /\ nextClosed /\ next = <<>> /\ perr # NoErr))
    /\ [][closeReturned =>
            UNCHANGED <<prodVars, srcCount, mem, next, nextClosed>>]_vars

\* Close has returned after flushing data that was still in flight.
C6_Witness ==
    /\ AfterClose
    /\ closeReturned
    /\ srcCount > Len(out)
    /\ rbuf # Nil

\* C7: provided the source's blocking read returns an error once the source
\* is closed, every Close eventually returns and the producer eventually
\* exits, wherever the producer was when Close was called.
C7_CloseTerminates ==
    /\ closeCalled ~> closeReturned
    /\ closeCalled ~> (ppc = "done")

\* Close has returned although the producer was parked in its send to the
\* full r.next, with more data behind it, when Close was called.
C7_Witness ==
    /\ AfterClose
    /\ closeReturned
    /\ call.prod = "parked"

\* A Read call is in progress.
InRead == op = "Read" /\ cpc # "idle"

\* None of Read's unconditional channel operations is blocked: the sends to
\* r.pool find room, the drain of timer.C finds the event, the take from
\* r.err finds the error and the put finds the slot empty.
ReadNeverBlocked ==
    /\ cpc \in {"recycle1", "recycle2"} => Len(pool) < PoolCap
    /\ (InRead /\ cpc = "drain") => timer = "fired"
    /\ cpc = "errtake" => errc # <<>>
    /\ cpc = "errput" => Len(errc) < ErrCap

\* C8: given only that the timer eventually fires, every Read call returns:
\* it waits for data no longer than the timer, does not wait at all once it
\* has copied a byte, and never blocks on r.pool, timer.C or r.err.
C8_ReadTerminates ==
    /\ []ReadNeverBlocked
    /\ InRead ~> (cpc = "idle")

\* Read has returned ErrNoData while the producer is still inside its first
\* read of the source, which has handed out nothing.
C8_Witness ==
    /\ AfterRead
    /\ lastRet.err = ErrNoData
    /\ ppc = "read"
    /\ srcCount = 0
    /\ ~srcClosed

\* C9: a Read called with a destination at least as long as the bytes then
\* pending in the reader (unread in the current buffer, queued in r.next,
\* held by the producer parked in its send) returns all of them with a nil
\* error.  The call whose timer expires before its first receive, which the
\* select may then serve first, is set aside: only calls that did not
\* return ErrNoData are constrained.
C9_PendingReturnedInFull ==
    (AfterRead /\ call.pend >= 1 /\ call.len >= call.pend /\ lastRet.err # ErrNoData) =>
        (lastRet.err = NoErr /\ lastRet.n >= call.pend)

\* C10: Close returns exactly what the source's Close returned, whatever the
\* producer's terminal read error and whatever was still in flight.
C10_CloseResult == (AfterClose /\ closeReturned) => lastRet.err = srcCloseRet

\* Close has returned the source's close error while the producer ended on
\* a different error and published bytes were never read.
C10_Witness ==
    /\ AfterClose
    /\ closeReturned
    /\ lastRet.err = "errOnClose"
    /\ perr = "EOF"
    /\ srcCount > Len(out)

\* C11: Read returns a zero count with a nil error only when the
\* destination has length zero; with a destination of length at least 1 a
\* nil error comes with at least one byte.
C11_ZeroNilOnlyForEmptyDestination ==
    (AfterRead /\ lastRet.err = NoErr /\ lastRet.n = 0) => call.len = 0

\* A Read with an empty destination has returned (0, nil) after taking a
\* buffer that holds data.
C11_Witness ==
    /\ AfterRead
    /\ call.len = 0
    /\ lastRet = [n |-> 0, err |-> NoErr]
    /\ call.recv = 1
    /\ rbuf.len >= 1

\* The number of places that hold buffer b: the producer's local buf (from
\* the moment it has a buffer to fill until it has published it, and for
\* good once it has stopped), the slots of r.next, r.buf and the caller's
\* local buf between a receive and the hand-over, and the slots of r.pool.
Holders(b) ==
    (IF ppc # "poolrecv" /\ pbuf.id = b THEN 1 ELSE 0)
    + Cardinality({k \in 1..Len(next) : next[k].id = b})
    + (IF rbuf.id = b THEN 1 ELSE 0)
    + (IF cpc \in {"recycle1", "recycle2", "closeput"} /\ lbuf.id = b THEN 1 ELSE 0)
    + Cardinality({k \in 1..Len(pool) : pool[k].id = b})

\* C12: in every reachable state each of the three buffers has exactly one
\* holder among the producer, r.next, the consumer and r.pool; none is in
\* two places or lost, and no nil slice circulates in the channels.
C12_OneHolderPerBuffer ==
    /\ \A b \in Bufs : Holders(b) = 1
    /\ \A k \in 1..Len(next) : next[k].id \in Bufs
    /\ \A k \in 1..Len(pool) : pool[k].id \in Bufs

\* The consumer holds two buffers, the one it has just received in Read's
\* poll and its current one, while the third sits in r.next, handed over by
\* the producer that was parked in its send.
C12_Witness ==
    /\ cpc = "recycle2"
    /\ lbuf # Nil
    /\ ppc = "poolrecv"
    /\ Len(next) = 1
    /\ pool = <<>>

\* C13: once the source's read has returned an error to the producer, the
\* producer never calls the source's read again: it publishes the bytes
\* that came with the error, records the error, closes r.next and stops,
\* so the one error recorded is that first error.
C13_NoReadAfterError ==
    /\ [](perr # NoErr => ppc # "read")
    /\ [](ppc \in {"close", "done"} =>
            \/ errc = <<perr>>
            \/ errc = <<>> /\ cpc = "errput" /\ cerr = perr)
    /\ [](ppc \notin {"close", "done"} => errc = <<>>)
    /\ [][perr # NoErr =>
            (perr' = perr /\ pn' = pn /\ srcCount' = srcCount /\ mem' = mem)]_vars

\* The producer has stopped on an error of the open source, which still had
\* bytes to give.
C13_Witness ==
    /\ ppc = "done"
    /\ perr # NoErr
    /\ ~srcClosed
    /\ srcCount < MaxBytes
    /\ srcCount >= 1

\* C14: in every reachable state r.next is closed if and only if the
\* producer has stopped for good; it is closed once, by the producer's last
\* step, it stays closed, and nothing is sent on it afterwards.
C14_ClosedIffProducerStopped ==
    /\ [](nextClosed <=> ppc = "done")
    /\ [][nextClosed' # nextClosed =>
            (~nextClosed /\ ppc = "close" /\ ppc' = "done")]_vars
    /\ [][nextClosed => (next' = next \/ (next # <<>> /\ next' = Tail(next)))]_vars

\* r.next is closed with a filled buffer still queued in it.
C14_Witness ==
    /\ nextClosed
    /\ ppc = "done"
    /\ next # <<>>
    /\ ~closeCalled

\* C15: at the return of every Read call, on every return path, the timer
\* is inactive and no fired event is left in timer.C, so no call starts
\* with the event of an earlier one; and the drain after a failed Stop
\* always finds the event.
C15_TimerQuietBetweenCalls ==
    /\ AfterRead => timer = "off"
    /\ ~InRead => timer \in {"nil", "off"}
    /\ (InRead /\ cpc = "drain") => timer = "fired"

\* Read has returned ErrNoData, consuming the timer's event, although a
\* filled buffer was queued by the time the select ran.
C15_Witness ==
    /\ AfterRead
    /\ lastRet.err = ErrNoData
    /\ timer = "off"
    /\ next # <<>>

\* C16: whenever Read or Close is about to send a buffer to r.pool, the
\* pool holds fewer buffers than its capacity, so the send does not block:
\* in the wait loop and in the poll of Read, also when r.next was seen
\* closed, in the flush of Close, and in a Read issued after Close.
C16_RecycleNeverBlocks ==
    cpc \in {"recycle1", "recycle2", "closeput"} => Len(pool) < PoolCap

\* A Read issued after Close has seen r.next closed and is about to send its
\* current buffer to the pool, which already holds one flushed by Close.
C16_Witness ==
    /\ cpc = "recycle1"
    /\ lbuf = Nil
    /\ closeReturned
    /\ Len(pool) = 1
    /\ srcCount > Len(out)

\* C17: whenever the consumer has observed r.next closed, r.err already
\* holds the terminal error, so the take from r.err does not block; and
\* outside the take and put of a Read, once the producer has stopped, r.err
\* holds exactly one value, the producer's terminal error.
C17_ErrorReadyWhenClosed ==
    /\ (rbuf = Nil \/ (InRead /\ cpc # "wait" /\ lbuf = Nil)) => nextClosed
    /\ (nextClosed /\ cpc # "errput") => (errc = <<perr>> /\ perr \in SrcErrors)
    /\ cpc = "errput" => (errc = <<>> /\ cerr = perr /\ nextClosed)

\* A second Read after the terminal error is about to take the error from
\* r.err, where the first one has put it back.
C17_Witness ==
    /\ cpc = "errtake"
    /\ call.st # NoErr
    /\ errc = <<call.st>>

\* C18: the producer never publishes an empty buffer: every slice in r.next
\* and the slice of a pending send has length at least 1; a source read of
\* 0 bytes without error is retried into the same buffer with no send and
\* no exchange; so Read's wait loop receives at most once before it holds
\* unread bytes or has seen r.next closed.
C18_NoEmptyBufferPublished ==
    /\ [](\A k \in 1..Len(next) : next[k].len >= 1 /\ next[k].len <= BufCap)
    /\ [](ppc \in {"send", "parked"} => pn >= 1)
    /\ []((cpc \in {"wait", "recycle1"} => call.recv <= 1)
          /\ ((cpc = "wait" /\ call.recv = 1) => ~WaitCond))
    /\ [][(ppc = "read" /\ ppc' # "read" /\ pn' = 0) =>
            (ppc' = "errcheck" /\ pbuf' = pbuf /\ next' = next /\ pool' = pool)]_vars
    /\ [][(ppc = "errcheck" /\ ppc' = "read") =>
            (pbuf' = pbuf /\ next' = next /\ pool' = pool)]_vars

\* The wait loop of Read has received its one buffer, which holds data,
\* while the producer is about to retry a source read that returned (0, nil).
C18_Witness ==
    /\ cpc = "wait"
    /\ call.recv = 1
    /\ rbuf.len >= 1
    /\ ppc = "errcheck"
    /\ pn = 0
    /\ perr = NoErr

\* The producer stores its error in this step.
ProducerStoresErr == ppc = "errcheck" /\ ppc' = "close"

\* C19 as stated: r.err is written only by the producer, once, and no
\* consumer-side operation writes to it.
C19_OnlyProducerWrites == [][Len(errc') > Len(errc) => ProducerStoresErr]_vars

\* C19 amended: a new value enters r.err only from the producer, exactly
\* once; only the consumer takes from r.err, in Read, and the same Read
\* puts the value it took back before it returns, so the consumer's writes
\* never change the value the slot holds.
C19_ErrSlotDiscipline ==
    /\ [][Len(errc') > Len(errc) =>
            \/ ProducerStoresErr /\ errc = <<>> /\ errc' = <<perr>> /\ cpc # "errput"
            \/ cpc = "errput" /\ cpc' = "idle" /\ errc = <<>> /\ errc' = <<cerr>>
               /\ cerr = perr /\ ppc = "done"]_vars
    /\ [][Len(errc') < Len(errc) =>
            (cpc = "errtake" /\ cpc' = "errput" /\ cerr' = Head(errc) /\ errc' = <<>>)]_vars
    /\ [][(ppc \in {"close", "done"}) => (ppc' \in {"close", "done"})]_vars
    /\ [][Len(errc') = Len(errc) => errc' = errc]_vars

\* After Close, a Read has taken the terminal error from r.err and put it
\* back.
C19_Witness ==
    /\ AfterRead
    /\ closeReturned
    /\ call.errop = 2
    /\ errc = <<perr>>
    /\ lastRet.err = perr

====
